---- MODULE Spec2Model ----
(***************************************************************************)
(* A model of RelVal/o2dpg_release_validation.py: the file-set matcher,    *)
(* the size-divergence check, the summary aggregator and the top-level     *)
(* rel-val run.                                                            *)
(*                                                                         *)
(* Strings of the program that are taken apart (paths, glob patterns, grep *)
(* patterns) are sequences of one-character strings.  Floating-point       *)
(* thresholds are exact fractions <<numerator, denominator>>.              *)
(***************************************************************************)
EXTENDS Integers, Sequences, FiniteSets, TLC

VARIABLES
    \* exceeding_difference_thresh(sizes, threshold)
    szSizes,        \* the argument sizes
    szThreshold,    \* the argument threshold
    szResult,       \* the returned diff_indices, or the exception raised
    szPc            \* "call" before the call, "done" after it

szVars == <<szSizes, szThreshold, szResult, szPc>>

VARIABLES
    \* find_mutual_files(dirs, glob_pattern, grep=...)
    mDirs,          \* the argument dirs: each a directory as spelled by the
                    \* caller (root) and the files found under it (files)
    mPattern,       \* the argument glob_pattern
    mGrep,          \* the argument grep: None or a list of substrings
    mResult,        \* the returned list
    mPc             \* "call" before the call, "done" after it

mVars == <<mDirs, mPattern, mGrep, mResult, mPc>>

VARIABLES
    \* make_summary(in_dir) over an output directory
    sDisk,          \* the JSON files under the output directory: relative
                    \* path |-> document
    sListing,       \* the order in which a walk of the output directory
                    \* lists its files
    sSummary1,      \* what the first call returned
    sSummary2,      \* what the second call returned
    sPc             \* "first", "made", "written", "done"

sVars == <<sDisk, sListing, sSummary1, sSummary2, sPc>>

VARIABLES
    \* rel_val(args)
    args,           \* the parsed command line
    rPc,            \* where the run is: "start", "size_audit", "select",
                    \* "dispatch", "waiting", "aggregate", "report",
                    \* "returned", "raised"
    rRet,           \* what rel_val returned
    rRaised,        \* the exception that ended the run, if one did
    rThresholdFile, \* <output>/use_thresholds.dat
    rFileSizes,     \* <output>/file_sizes.json
    rKeys,          \* run_over_keys of rel_val_sim_dirs
    rQueue,         \* the comparisons the loops have still to come to
    rHandled,       \* the comparisons the loops have come to, skipped or not
    rTasks,         \* the subprocesses started, in order
    rDisk,          \* the Summary.json files and SummaryGlobal.json under
                    \* the output directory: relative path |-> document
    rReport         \* what print_summary returned

rVars == <<args, rPc, rRet, rRaised, rThresholdFile, rFileSizes, rKeys, rQueue,
           rHandled, rTasks, rDisk, rReport>>

VARIABLES
    \* print_summary(filename)
    pSummary,       \* the document in the file
    pResult,        \* what the call returned
    pPc             \* "call" before the call, "done" after it

pVars == <<pSummary, pResult, pPc>>

VARIABLES
    \* make_new_threshold_file(json_path, out_filepath)
    tJson,          \* the document at json_path
    tLines,         \* the lines written to out_filepath
    tPc             \* "call" before the call, "done" after it

tVars == <<tJson, tLines, tPc>>

VARIABLES
    \* compare(args)
    cArgs,          \* the parsed command line of the compare subcommand
    cDisk,          \* run output directory |-> its SummaryGlobal.json, if any
    cResult,        \* what the call returned or raised, and what it reported
    cPc             \* "call" before the call, "done" after it

cVars == <<cArgs, cDisk, cResult, cPc>>

\* The variables of the calls of the functions that read a summary
xVars == <<pVars, tVars, cVars>>

vars == <<szSizes, szThreshold, szResult, szPc,
          mDirs, mPattern, mGrep, mResult, mPc,
          sDisk, sListing, sSummary1, sSummary2, sPc,
          args, rPc, rRet, rRaised, rThresholdFile, rFileSizes, rKeys, rQueue,
          rHandled, rTasks, rDisk, rReport,
          pSummary, pResult, pPc,
          tJson, tLines, tPc,
          cArgs, cDisk, cResult, cPc>>

-----------------------------------------------------------------------------
(* Generic helpers *)

Range(s) == {s[i] : i \in DOMAIN s}

Abs(x) == IF x < 0 THEN -x ELSE x

\* All sequences over S of length 0..n
SeqsUpTo(S, n) == UNION {[1..k -> S] : k \in 0..n}

\* What a call gives back: a returned value, or the exception it raised
Returned(v) == [exception |-> "", value |-> v]

Raised(e) == [exception |-> e, value |-> <<>>]

\* The result variable of a call that has not been made
NotCalled == Returned(<<>>)

\* An optional list argument: Python's None, or a list
NoneList == [none |-> TRUE, list |-> <<>>]

ListOf(l) == [none |-> FALSE, list |-> l]

\* "if x:" for an optional list: neither None nor empty
Truthy(x) == ~x.none /\ x.list # <<>>

Min(a, b) == IF a < b THEN a ELSE b

-----------------------------------------------------------------------------
(* exceeding_difference_thresh *)

MaxSizes == 3

\* File sizes in bytes the size check is tried on
SizeValues == {0, 100, 200, 201}

\* Thresholds as fractions: 0.1, 0.5 and 1.0
ThresholdValues == {<<1, 10>>, <<1, 2>>, <<1, 1>>}

ZeroDivisionError == "ZeroDivisionError"

\* itertools.combinations(range(n), 2): the pairs (i1, i2), 0 <= i1 < i2 < n,
\* in lexicographic order
combinations2(n) ==
    LET all == [k \in 1..(n * n) |-> <<(k - 1) \div n, (k - 1) % n>>]
        ordered(p) == p[1] < p[2]
    IN  SelectSeq(all, ordered)

\* a plausible slip: a non-strict comparison
exceeds_nonstrict(diff, size2, threshold) ==
    diff * threshold[2] >= threshold[1] * size2

\* diff / sizes[i2] > threshold, for a non-zero sizes[i2]
exceeds(diff, size2, threshold) == diff * threshold[2] > threshold[1] * size2

exceeding_difference_thresh(sizes, threshold) ==
    LET combos == combinations2(Len(sizes))
        flagged(p) == exceeds(Abs(sizes[p[1] + 1] - sizes[p[2] + 1]),
                              sizes[p[2] + 1], threshold)
    IN  IF \E k \in DOMAIN combos : sizes[combos[k][2] + 1] = 0
        THEN Raised(ZeroDivisionError)
        ELSE Returned(SelectSeq(combos, flagged))

-----------------------------------------------------------------------------
(* Strings as sequences of characters *)

\* The code points Python's string comparison orders the characters by
CharCode(c) ==
    CASE c = "*" -> 42
      [] c = "," -> 44
      [] c = "." -> 46
      [] c = "/" -> 47
      [] c = "1" -> 49
      [] c = "2" -> 50
      [] c = "h" -> 104
      [] c = "n" -> 110
      [] c = "_" -> 95
      [] c = "a" -> 97
      [] c = "b" -> 98
      [] c = "c" -> 99
      [] c = "d" -> 100
      [] c = "g" -> 103
      [] c = "i" -> 105
      [] c = "l" -> 108
      [] c = "o" -> 111
      [] c = "r" -> 114
      [] c = "s" -> 115
      [] c = "t" -> 116
      [] c = "w" -> 119
      [] c = "x" -> 120
      [] c = "y" -> 121

\* a < b for Python strings
StrLess(a, b) ==
    \E k \in 1..(Min(Len(a), Len(b)) + 1) :
        /\ \A j \in 1..(k - 1) : a[j] = b[j]
        /\ \/ k > Len(a) /\ k <= Len(b)
           \/ /\ k <= Len(a)
              /\ k <= Len(b)
              /\ CharCode(a[k]) < CharCode(b[k])

\* list.sort(): insertion into a sorted list, after the elements not greater
RECURSIVE InsertSorted(_, _)
InsertSorted(x, s) ==
    IF s = <<>> THEN <<x>>
    ELSE IF StrLess(x, Head(s)) THEN <<x>> \o s
    ELSE <<Head(s)>> \o InsertSorted(x, Tail(s))

RECURSIVE sort(_)
sort(s) == IF s = <<>> THEN <<>> ELSE InsertSorted(Head(s), sort(Tail(s)))

\* sorted(S) of a set of strings
RECURSIVE SortedList(_)
SortedList(S) ==
    IF S = {} THEN <<>>
    ELSE LET least == CHOOSE x \in S : \A y \in S \ {x} : StrLess(x, y)
         IN  <<least>> \o SortedList(S \ {least})

\* g in s
Contains(s, g) ==
    \E i \in 0..(Len(s) - Len(g)) : SubSeq(s, i + 1, i + Len(g)) = g

\* s.lstrip("/")
RECURSIVE lstrip(_)
lstrip(s) == IF s # <<>> /\ Head(s) = "/" THEN lstrip(Tail(s)) ELSE s

\* s.rstrip("/")
RECURSIVE rstrip(_)
rstrip(s) ==
    IF s # <<>> /\ s[Len(s)] = "/" THEN rstrip(SubSeq(s, 1, Len(s) - 1)) ELSE s

\* s.split("/")
RECURSIVE split(_)
split(s) ==
    IF \A i \in DOMAIN s : s[i] # "/" THEN <<s>>
    ELSE LET i == CHOOSE i \in DOMAIN s :
                      s[i] = "/" /\ \A j \in 1..(i - 1) : s[j] # "/"
         IN  <<SubSeq(s, 1, i - 1)>> \o split(SubSeq(s, i + 1, Len(s)))

\* os.path.join(a, b)
join(a, b) ==
    IF b # <<>> /\ Head(b) = "/" THEN b
    ELSE IF a = <<>> \/ a[Len(a)] = "/" THEN a \o b
    ELSE a \o <<"/">> \o b

-----------------------------------------------------------------------------
(* glob *)

\* fnmatch of one path component against one pattern component, "*" being
\* the only wildcard of the patterns modelled
RECURSIVE fnmatch(_, _)
fnmatch(name, pat) ==
    IF pat = <<>> THEN name = <<>>
    ELSE IF Head(pat) = "*"
         THEN \/ fnmatch(name, Tail(pat))
              \/ name # <<>> /\ fnmatch(Tail(name), pat)
    ELSE /\ name # <<>>
         /\ Head(name) = Head(pat)
         /\ fnmatch(Tail(name), Tail(pat))

IsHidden(name) == name # <<>> /\ Head(name) = "."

\* The directories a file lies in, relative to the root of its tree
ParentDirs(p) == {SubSeq(p, 1, i - 1) : i \in {j \in DOMAIN p : p[j] = "/"}}

\* Every file and directory under the root of a tree, relative to the root
Entries(files) == files \cup UNION {ParentDirs(p) : p \in files}

\* Whether glob("<root>/**/<pattern>", recursive=True) yields the entry:
\* "**" walks zero or more directories, none of them hidden, and the
\* components of the pattern match the components that remain
GlobMatches(entry, pattern) ==
    LET ec == split(entry)
        pc == split(pattern)
        n == Len(ec)
        m == Len(pc)
    IN  /\ n >= m
        /\ \A i \in 1..(n - m) : ~IsHidden(ec[i])
        /\ \A i \in 1..m :
              /\ fnmatch(ec[n - m + i], pc[i])
              /\ IsHidden(ec[n - m + i]) => IsHidden(pc[i])

\* glob(f"{d}/**/{glob_pattern}", recursive=True) for a directory spelled
\* d.root: the matches, each spelled from the root without its trailing "/"
glob(d, glob_pattern) ==
    {rstrip(d.root) \o <<"/">> \o e :
        e \in {x \in Entries(d.files) : GlobMatches(x, glob_pattern)}}

-----------------------------------------------------------------------------
(* find_mutual_files *)

\* a plausible slip: the root is cut off but a leading "/" is kept
strip_root_keep_slash(f, d) == SubSeq(f, Len(d.root) + 1, Len(f))

\* f[i] = f[i][len(d):].lstrip("/")
strip_root(f, d) == lstrip(SubSeq(f, Len(d.root) + 1, Len(f)))

\* files[k] after the loop of lines 128-132, as a set
relative_files(d, glob_pattern) ==
    {strip_root(f, d) : f \in glob(d, glob_pattern)}

RECURSIVE intersect_all(_, _)
\* lines 138-140: intersection = files[0], then & set(f) for the others
intersect_all(acc, rest) ==
    IF rest = <<>> THEN acc ELSE intersect_all(acc \cap Head(rest), Tail(rest))

RECURSIVE grep_accumulate(_, _)
\* lines 146-149: for each grep pattern in turn, every cached path that
\* contains it is appended
grep_accumulate(grep, intersection_cache) ==
    IF grep = <<>> THEN <<>>
    ELSE LET g == Head(grep)
             has(ic) == Contains(ic, g)
         IN  SelectSeq(intersection_cache, has)
                \o grep_accumulate(Tail(grep), intersection_cache)

\* The list a Python list/set of paths becomes once sorted; before the
\* final sort its order is that of the glob or of the set, which the sort
\* erases
find_mutual_files(dirs, glob_pattern, grep) ==
    LET files == [k \in DOMAIN dirs |-> relative_files(dirs[k], glob_pattern)]
    IN  IF files = <<>> THEN <<>>
        ELSE LET intersection == SortedList(intersect_all(files[1], Tail(files)))
             IN  IF Truthy(grep)
                 THEN sort(grep_accumulate(grep.list, intersection))
                 ELSE sort(intersection)

-----------------------------------------------------------------------------
(* JSON documents and the output tree *)

\* A Python dict / JSON object, with its insertion order: a sequence of
\* [name, tests] items, no name twice.  d[key] = val keeps the place of a
\* key that is there already and appends a new one.
dict_set(d, key, val) ==
    IF \E i \in DOMAIN d : d[i].name = key
    THEN [i \in DOMAIN d |-> IF d[i].name = key
                             THEN [name |-> key, tests |-> val]
                             ELSE d[i]]
    ELSE Append(d, [name |-> key, tests |-> val])

dict_keys(d) == [i \in DOMAIN d |-> d[i].name]

\* a plausible slip: json.dump(..., sort_keys=True) writes the items by name
json_dump_sort_keys(doc) ==
    LET names == SortedList({doc[i].name : i \in DOMAIN doc})
    IN  [k \in DOMAIN names |->
            doc[CHOOSE i \in DOMAIN doc : doc[i].name = names[k]]]

\* json.dump(obj, f, indent=2) followed by json.load: the document keeps its
\* items, in the order of the dict
json_dump(doc) == doc

SummaryJson == <<"S", "u", "m", "m", "a", "r", "y", ".", "j", "s", "o", "n">>

SummaryGlobalJson ==
    <<"S", "u", "m", "m", "a", "r", "y", "G", "l", "o", "b", "a", "l",
      ".", "j", "s", "o", "n">>

OverlayPlots == <<"o", "v", "e", "r", "l", "a", "y", "P", "l", "o", "t", "s">>

DotPng == <<".", "p", "n", "g">>

\* "/".join(parts)
RECURSIVE join_slash(_)
join_slash(parts) ==
    IF parts = <<>> THEN <<>>
    ELSE IF Len(parts) = 1 THEN parts[1]
    ELSE parts[1] \o <<"/">> \o join_slash(Tail(parts))

\* "/".join(path.split("/")[:-1])
dirname_of(path) ==
    LET parts == split(path) IN join_slash(SubSeq(parts, 1, Len(parts) - 1))

\* os.path.relpath(path, start) for a path that is start or lies under it
relpath(path, start) ==
    LET s == rstrip(start)
    IN  IF path = s THEN <<".">> ELSE SubSeq(path, Len(s) + 2, Len(path))

\* glob(f"{in_dir}/**/{name}", recursive=True) over the output tree: the
\* files present that match, in the order the walk of the tree lists them
glob_listed(in_dir, name, present, listing) ==
    LET hit(p) == p \in present /\ GlobMatches(p, name)
        found == SelectSeq(listing, hit)
    IN  [i \in DOMAIN found |-> rstrip(in_dir) \o <<"/">> \o found[i]]

-----------------------------------------------------------------------------
(* make_summary *)

\* lines 518-521: the four fields set on a test
annotate(test, histo_name, type_global, type_specific, rel_path_plot) ==
    [f \in DOMAIN test \cup {"name", "type_global", "type_specific", "rel_path_plot"} |->
        CASE f = "name" -> histo_name
          [] f = "type_global" -> type_global
          [] f = "type_specific" -> type_specific
          [] f = "rel_path_plot" -> join(rel_path_plot, histo_name \o DotPng)
          [] OTHER -> test[f]]

\* a plausible slip: an artifact that is there already is kept
merge_item_keep_first(summary, histo_name, tests) ==
    IF \E i \in DOMAIN summary : summary[i].name = histo_name
    THEN summary
    ELSE dict_set(summary, histo_name, tests)

\* line 515: summary[histo_name] = tests
merge_item(summary, histo_name, tests) == dict_set(summary, histo_name, tests)

RECURSIVE merge_document(_, _, _, _, _)
\* lines 514-521 for one Summary.json
merge_document(summary, items, type_global, type_specific, rel_path_plot) ==
    IF items = <<>> THEN summary
    ELSE LET histo_name == Head(items).name
             tests == Head(items).tests
             annotated == [k \in DOMAIN tests |->
                              annotate(tests[k], histo_name, type_global,
                                       type_specific, rel_path_plot)]
         IN  merge_document(merge_item(summary, histo_name, annotated),
                            Tail(items), type_global, type_specific, rel_path_plot)

\* a plausible slip: the whole relative directory is taken for the group
type_global_whole(type_specific) == type_specific

\* line 512: type_specific.split("/")[0]
type_global_of(type_specific) == split(type_specific)[1]

RECURSIVE merge_paths(_, _, _, _)
\* lines 503-521: the loop over file_paths
merge_paths(summary, file_paths, in_dir, disk) ==
    IF file_paths = <<>> THEN summary
    ELSE LET path == Head(file_paths)
             current_summary == disk[relpath(path, in_dir)]
             rel_val_path == dirname_of(path)
             type_specific == relpath(rel_val_path, in_dir)
             rel_path_plot == join(type_specific, OverlayPlots)
             type_global == type_global_of(type_specific)
         IN  merge_paths(merge_document(summary, current_summary, type_global,
                                        type_specific, rel_path_plot),
                         Tail(file_paths), in_dir, disk)

\* The Summary.json files make_summary reads, in the order it reads them
summary_paths(in_dir, disk, listing) ==
    glob_listed(in_dir, SummaryJson, DOMAIN disk, listing)

make_summary(in_dir, disk, listing) ==
    merge_paths(<<>>, summary_paths(in_dir, disk, listing), in_dir, disk)

-----------------------------------------------------------------------------
(* Names used throughout *)

DotRoot == <<".", "r", "o", "o", "t">>

\* The output directory
OutDir == <<"o", "u", "t">>

G1 == <<"g", "1">>

G2 == <<"g", "2">>

N1 == <<"n", "1">>

N2 == <<"n", "2">>

H1 == <<"h", "1">>

H2 == <<"h", "2">>

-----------------------------------------------------------------------------
(* The file system a rel-val run finds *)

Pipeline == <<"p", "i", "p", "e", "l", "i", "n", "e">>

DotLog == <<".", "l", "o", "g">>

\* Two simulation directories, d1 and d2
D1 == <<"d", "1">>

D2 == <<"d", "2">>

\* A directory that holds no pipeline* entry
DirE == <<"e">>

\* Plain files
F1 == <<"f", "1">> \o DotRoot

F2 == <<"f", "2">> \o DotRoot

F3 == <<"f", "3">> \o DotRoot

\* A path at which nothing exists
Nx == <<"n", "x">>

A_root == <<"a">> \o DotRoot

C_root == <<"c">> \o DotRoot

S_a_root == <<"s", "/", "a">> \o DotRoot

S_b_root == <<"s", "/", "b">> \o DotRoot

\* The files under a directory, with their sizes in bytes
DirFiles(path) ==
    CASE path = D1 -> {Pipeline, A_root, C_root, S_a_root, S_b_root}
      [] path = D2 -> {Pipeline, A_root, S_a_root, S_b_root}
      [] path = DirE -> {A_root}
      [] OTHER -> {}

FileSize(dir, f) ==
    CASE dir = D1 /\ f = A_root -> 100
      [] dir = D2 /\ f = A_root -> 120
      [] dir = D1 /\ f = S_a_root -> 100
      [] dir = D2 /\ f = S_a_root -> 201
      [] OTHER -> 100

isdir(path) == path \in {D1, D2, DirE}

isfile(path) == path \in {F1, F2, F3}

\* The directory as find_mutual_files takes it
Tree(path) == [root |-> path, files |-> DirFiles(path)]

\* lines 97-106
is_sim_dir(path) ==
    /\ isdir(path)
    /\ \E e \in Entries(DirFiles(path)) :
          Len(split(e)) = 1 /\ fnmatch(e, Pipeline \o <<"*">>)

\* The working directory of the run
Cwd == <<"/", "w">>

\* os.path.abspath(p), "" giving the working directory
abspath(p) ==
    IF p = <<>> THEN Cwd
    ELSE IF Head(p) = "/" THEN p
    ELSE Cwd \o <<"/">> \o p

-----------------------------------------------------------------------------
(* file_sizes *)

RECURSIVE collect_files(_, _, _)
\* lines 191-205: the files whose sizes exceed the threshold, with the sizes
collect_files(intersection, dirs, threshold) ==
    IF intersection = <<>> THEN Returned(<<>>)
    ELSE LET f == Head(intersection)
             compare_sizes == [j \in DOMAIN dirs |-> FileSize(dirs[j].root, f)]
             diff_indices == exceeding_difference_thresh(compare_sizes, threshold)
             rest == collect_files(Tail(intersection), dirs, threshold)
         IN  IF diff_indices.exception # "" THEN diff_indices
             ELSE IF rest.exception # "" THEN rest
             ELSE IF diff_indices.value # <<>>
                  THEN Returned(<<[name |-> f, sizes |-> compare_sizes]>> \o rest.value)
             ELSE rest

\* lines 169-206: collect_dict, or the exception raised
file_sizes(dirs, threshold) ==
    LET intersection == find_mutual_files(dirs, <<"*">> \o DotRoot, NoneList)
        files == collect_files(intersection, dirs, threshold)
    IN  IF files.exception # "" THEN files
        ELSE Returned([directories |-> [j \in DOMAIN dirs |-> dirs[j].root],
                       files |-> files.value,
                       threshold |-> threshold])

\* line 548: the threshold rel_val_sim_dirs hands to file_sizes
audit_threshold(a) == <<1, 2>>

-----------------------------------------------------------------------------
(* The directory configuration *)

\* The dir-config files the user may name.  A configuration is an ordered
\* mapping group |-> (ordered mapping name |-> glob pattern).
Cfg1 == <<"c", "1">>

Cfg2 == <<"c", "2">>

\* A configuration whose keys hold a "/"
Cfg3 == <<"c", "3">>

ConfigFile(path) ==
    IF path = Cfg3
    THEN << [key |-> G1,
             value |-> << [key |-> join(N1, N2), value |-> <<"*">> \o DotRoot] >>],
            [key |-> join(G1, N1),
             value |-> << [key |-> N2, value |-> A_root] >>] >>
    ELSE IF path = Cfg1
    THEN << [key |-> G1,
             value |-> << [key |-> N1, value |-> <<"*">> \o DotRoot],
                          [key |-> N2, value |-> <<"*">> \o DotLog] >>],
            [key |-> G2,
             value |-> << [key |-> N1, value |-> <<"s", "/", "*">>] >>] >>
    ELSE << [key |-> G2,
             value |-> << [key |-> N1, value |-> <<"*">> \o DotLog],
                          [key |-> N2, value |-> A_root] >>],
            [key |-> G1,
             value |-> << [key |-> N1, value |-> <<"s", "/", "*">>] >>] >>

config_keys(config) == [i \in DOMAIN config |-> config[i].key]

config_get(config, key) ==
    config[CHOOSE i \in DOMAIN config : config[i].key = key].value

AttributeError == "AttributeError"

\* lines 557-561: run_over_keys, or the exception raised.  Line 561 reads
\* args.dir, an attribute the rel-val parser does not define.
run_over_keys(config, a) ==
    LET keys == config_keys(config)
        enabled(rok) == rok \in Range(a.dir_config_enable.list)
        after_enable == IF Truthy(a.dir_config_enable)
                        THEN SelectSeq(keys, enabled)
                        ELSE keys
    IN  \* the condition of line 561 is evaluated once per remaining key
        IF Truthy(a.dir_config_disable) /\ after_enable # <<>>
        THEN Raised(AttributeError)
        ELSE Returned(after_enable)

\* lines 566-569: the (group, name, pattern) items in the order of the loops
RECURSIVE sub_groups(_, _)
sub_groups(config, keys) ==
    IF keys = <<>> THEN <<>>
    ELSE LET current_dir_config == config_get(config, Head(keys))
         IN  [i \in DOMAIN current_dir_config |->
                 [rok |-> Head(keys),
                  name |-> current_dir_config[i].key,
                  path |-> current_dir_config[i].value]]
             \o sub_groups(config, Tail(keys))

-----------------------------------------------------------------------------
(* rel_val_files, print_summary, make_new_threshold_file *)

kBool(b) == IF b THEN "kTRUE" ELSE "kFALSE"

\* ",".join(paths)
RECURSIVE join_comma(_)
join_comma(paths) ==
    IF paths = <<>> THEN <<>>
    ELSE IF Len(paths) = 1 THEN paths[1]
    ELSE paths[1] \o <<",">> \o join_comma(Tail(paths))

\* lines 260-267: the arguments of ReleaseValidation.C in the command line
macro_arguments(files1, files2, a) ==
    [file1 |-> join_comma([i \in DOMAIN files1 |-> abspath(files1[i])]),
     file2 |-> join_comma([i \in DOMAIN files2 |-> abspath(files2[i])]),
     test |-> a.test,
     chi2_threshold |-> a.chi2_threshold,
     rel_mean_diff_threshold |-> a.rel_mean_diff_threshold,
     rel_entries_diff_threshold |-> a.rel_entries_diff_threshold,
     select_critical |-> kBool(a.select_critical),
     in_thresholds |-> abspath(a.use_values_as_thresholds)]

\* lines 254-271: the subprocess rel_val_files starts
rel_val_files(files1, files2, a, output_dir) ==
    [files1 |-> files1,
     files2 |-> files2,
     output_dir |-> output_dir,
     cmd |-> macro_arguments(files1, files2, a),
     log_file |-> join(abspath(output_dir), <<"r", "e", "l", "_", "v", "a", "l">> \o DotLog),
     state |-> "running",
     exit |-> 0,
     summary_written |-> FALSE]

\* a plausible slip: a non-zero exit code raises (subprocess check=True)
after_wait_check(exit) == IF exit # 0 THEN "raise" ELSE "continue"

\* lines 276-278: p.wait(), the exit code dropped, return 0
after_wait(exit) == "continue"

\* line 92
REL_VAL_SEVERITY_MAP == <<"GOOD", "WARNING", "NONCRIT_NC", "CRIT_NC", "BAD">>

RECURSIVE summary_results_any_test(_, _)
\* a plausible slip: the outcome of every test is taken for the verdict
summary_results_any_test(tests, histo_name) ==
    IF tests = <<>> THEN <<>>
    ELSE <<[result |-> Head(tests).result, name |-> histo_name]>>
         \o summary_results_any_test(Tail(tests), histo_name)

RECURSIVE summary_results(_, _)
\* lines 297-302 for one artifact: the results of its test_summary outcomes
summary_results(tests, histo_name) ==
    IF tests = <<>> THEN <<>>
    ELSE (IF Head(tests).test_name # "test_summary" THEN <<>>
          ELSE <<[result |-> Head(tests).result, name |-> histo_name]>>)
         \o summary_results(Tail(tests), histo_name)

RECURSIVE all_summary_results(_)
all_summary_results(summary) ==
    IF summary = <<>> THEN <<>>
    ELSE summary_results(Head(summary).tests, Head(summary).name)
         \o all_summary_results(Tail(summary))

\* lines 283-311: test_n_hist_map, severity |-> list of artifact names
print_summary(summary) ==
    LET found == all_summary_results(summary)
    IN  [sev \in Range(REL_VAL_SEVERITY_MAP) |->
            LET hit(x) == x.result = sev
                at == SelectSeq(found, hit)
            IN  [i \in DOMAIN at |-> at[i].name]]

RECURSIVE threshold_lines_of_all(_, _)
\* a plausible slip: a line for every outcome, comparable or not
threshold_lines_of_all(tests, histo_name) ==
    IF tests = <<>> THEN <<>>
    ELSE <<[name |-> histo_name,
            test_name |-> Head(tests).test_name,
            value |-> Head(tests).value]>>
         \o threshold_lines_of_all(Tail(tests), histo_name)

RECURSIVE threshold_lines_of(_, _)
\* lines 588-592 for one artifact
threshold_lines_of(tests, histo_name) ==
    IF tests = <<>> THEN <<>>
    ELSE (IF ~Head(tests).comparable THEN <<>>
          ELSE <<[name |-> histo_name,
                  test_name |-> Head(tests).test_name,
                  value |-> Head(tests).value]>>)
         \o threshold_lines_of(Tail(tests), histo_name)

RECURSIVE make_new_threshold_file(_)
\* lines 582-592: the lines written
make_new_threshold_file(json_in) ==
    IF json_in = <<>> THEN <<>>
    ELSE threshold_lines_of(Head(json_in).tests, Head(json_in).name)
         \o make_new_threshold_file(Tail(json_in))

-----------------------------------------------------------------------------
(* The size check on its own *)

SzIdle ==
    /\ szSizes = <<>>
    /\ szThreshold = <<1, 2>>
    /\ szResult = NotCalled
    /\ szPc = "idle"

SzInit ==
    /\ szSizes \in SeqsUpTo(SizeValues, MaxSizes)
    /\ szThreshold \in ThresholdValues
    /\ szResult = NotCalled
    /\ szPc = "call"

CallExceedingDifferenceThresh ==
    /\ szPc = "call"
    /\ szResult' = exceeding_difference_thresh(szSizes, szThreshold)
    /\ szPc' = "done"
    /\ UNCHANGED <<szSizes, szThreshold>>
    /\ UNCHANGED <<mVars, sVars, rVars, xVars>>

-----------------------------------------------------------------------------
(* The matcher on its own *)

MaxTrees == 2

MaxGrep == 2

\* Files a tree may hold: a.root, s/a.root and s/ab.log
TreeFiles ==
    { <<"a">> \o DotRoot,
      <<"s", "/", "a">> \o DotRoot,
      <<"s", "/", "a", "b", ".", "l", "o", "g">> }

\* A directory as the caller spells it: without or with a trailing "/"
TreeRoots == { <<"x">>, <<"y", "/">> }

TreeChoices == [root : TreeRoots, files : SUBSET TreeFiles]

\* *.root, * and s/*
GlobPatterns == { <<"*">> \o DotRoot, <<"*">>, <<"s", "/", "*">> }

GrepPatterns == { <<"a">>, <<"b">> }

MIdle ==
    /\ mDirs = <<>>
    /\ mPattern = <<"*">>
    /\ mGrep = NoneList
    /\ mResult = <<>>
    /\ mPc = "idle"

MInit ==
    /\ mDirs \in SeqsUpTo(TreeChoices, MaxTrees)
    \* one spelling names one directory
    /\ \A i \in DOMAIN mDirs : \A j \in DOMAIN mDirs :
          mDirs[i].root = mDirs[j].root => mDirs[i].files = mDirs[j].files
    /\ mPattern \in GlobPatterns
    /\ mGrep \in {NoneList} \cup {ListOf(l) : l \in SeqsUpTo(GrepPatterns, MaxGrep)}
    /\ mResult = <<>>
    /\ mPc = "call"

CallFindMutualFiles ==
    /\ mPc = "call"
    /\ mResult' = find_mutual_files(mDirs, mPattern, mGrep)
    /\ mPc' = "done"
    /\ UNCHANGED <<mDirs, mPattern, mGrep>>
    /\ UNCHANGED <<szVars, sVars, rVars, xVars>>

-----------------------------------------------------------------------------
(* The aggregator on its own *)

\* One outcome of a Summary.json, as ReleaseValidation.C writes it
Test(test_name, result, comparable, value, threshold) ==
    [test_name |-> test_name, result |-> result,
     comparable |-> comparable, value |-> value, threshold |-> threshold]

\* Documents a task may leave as its Summary.json
DocA ==
    << [name |-> H1,
        tests |-> << Test("chi2", "GOOD", TRUE, "0.5", "1.5"),
                     Test("test_summary", "GOOD", TRUE, "0", "0") >>] >>

DocB ==
    << [name |-> H2,
        tests |-> << Test("test_summary", "WARNING", TRUE, "1.2", "0") >>],
       [name |-> H1,
        tests |-> << Test("chi2", "BAD", TRUE, "2.5", "1.5"),
                     Test("test_summary", "BAD", TRUE, "0", "0") >>] >>

DocC ==
    << [name |-> H2,
        tests |-> << Test("bincont", "NONCRIT_NC", FALSE, "0", "0") >>] >>

RawDocs == {DocA, DocB, DocC}

\* The places, relative to the output directory, where a Summary.json may
\* lie: the directory itself (plain files) and <group>/<name> (directories)
SummaryPlaces ==
    { SummaryJson,
      join(join(G1, N1), SummaryJson),
      join(join(G1, N2), SummaryJson),
      join(join(G2, N1), SummaryJson) }

OutputFiles == SummaryPlaces \cup {SummaryGlobalJson}

\* All orders of the elements of a set
Orders(S) ==
    {s \in [1..Cardinality(S) -> S] :
        \A i \in DOMAIN s : \A j \in DOMAIN s : i # j => s[i] # s[j]}

\* The directory of a file, as a list of components
DirOf(p) == LET parts == split(p) IN SubSeq(parts, 1, Len(parts) - 1)

IsPrefix(a, b) == Len(a) <= Len(b) /\ SubSeq(b, 1, Len(a)) = a

\* The orders in which a recursive glob may list the files: the files of a
\* directory before those of its subdirectories, one subdirectory after the
\* other, the entries of one directory in an order the file system chooses
WalkOrders(S) ==
    {s \in Orders(S) :
        /\ \A i \in DOMAIN s : \A j \in DOMAIN s :
              (IsPrefix(DirOf(s[i]), DirOf(s[j])) /\ DirOf(s[i]) # DirOf(s[j]))
                  => i < j
        /\ \A i \in DOMAIN s : \A j \in DOMAIN s : \A k \in DOMAIN s :
              (i < k /\ k < j) =>
                  \A d \in 1..Len(DirOf(s[i])) :
                      IsPrefix(SubSeq(DirOf(s[i]), 1, d), DirOf(s[j]))
                          => IsPrefix(SubSeq(DirOf(s[i]), 1, d), DirOf(s[k]))}

SIdle ==
    /\ sDisk = <<>>
    /\ sListing = <<>>
    /\ sSummary1 = <<>>
    /\ sSummary2 = <<>>
    /\ sPc = "idle"

SInit ==
    /\ sListing \in WalkOrders(OutputFiles)
    /\ sDisk \in UNION {[P -> RawDocs] : P \in SUBSET SummaryPlaces}
    /\ sSummary1 = <<>>
    /\ sSummary2 = <<>>
    /\ sPc = "first"

\* make_summary(in_dir), a first time
MakeSummaryFirst ==
    /\ sPc = "first"
    /\ sSummary1' = make_summary(OutDir, sDisk, sListing)
    /\ sPc' = "made"
    /\ UNCHANGED <<sDisk, sListing, sSummary2>>
    /\ UNCHANGED <<szVars, mVars, rVars, xVars>>

\* lines 627-628: the merged document is written into the output directory
write_summary_global(disk, summary) ==
    [p \in DOMAIN disk \cup {SummaryGlobalJson} |->
        IF p = SummaryGlobalJson THEN json_dump(summary) ELSE disk[p]]

WriteSummaryGlobal ==
    /\ sPc = "made"
    /\ sDisk' = write_summary_global(sDisk, sSummary1)
    /\ sPc' = "written"
    /\ UNCHANGED <<sListing, sSummary1, sSummary2>>
    /\ UNCHANGED <<szVars, mVars, rVars, xVars>>

\* make_summary(in_dir) again, the Summary.json files being what they were
MakeSummarySecond ==
    /\ sPc \in {"made", "written"}
    /\ sSummary2' = make_summary(OutDir, sDisk, sListing)
    /\ sPc' = "done"
    /\ UNCHANGED <<sDisk, sListing, sSummary1>>
    /\ UNCHANGED <<szVars, mVars, rVars, xVars>>

-----------------------------------------------------------------------------
(* The rel-val run *)

\* A summary of an earlier run, for --use-values-as-thresholds
PrevJson == <<"p", "r", "e", "v">>

PrevSummary ==
    << [name |-> H1,
        tests |-> << Test("chi2", "GOOD", TRUE, "1.2", "1.5"),
                     Test("bincont", "CRIT_NC", FALSE, "0", "0") >>],
       [name |-> H2,
        tests |-> << Test("test_summary", "GOOD", TRUE, "0", "0") >>] >>

UseThresholdsDat ==
    <<"u", "s", "e", "_", "t", "h", "r", "e", "s", "h", "o", "l", "d", "s", ".", "d", "a", "t">>

G3 == <<"g", "3">>

\* What the user may pass for the options that take no part in the choice
\* of the tasks; lines 765-774 give the defaults (the first profile)
ArgProfiles ==
    { [with_test_chi2 |-> FALSE, with_test_bincont |-> FALSE,
       with_test_numentries |-> FALSE, chi2_threshold |-> "1.5",
       rel_mean_diff_threshold |-> "1.5", rel_entries_diff_threshold |-> "0.01",
       select_critical |-> FALSE, no_plots |-> FALSE,
       threshold |-> <<1, 10>>, use_values_as_thresholds |-> <<>>],
      [with_test_chi2 |-> TRUE, with_test_bincont |-> FALSE,
       with_test_numentries |-> FALSE, chi2_threshold |-> "1.5",
       rel_mean_diff_threshold |-> "1.5", rel_entries_diff_threshold |-> "0.01",
       select_critical |-> TRUE, no_plots |-> FALSE,
       threshold |-> <<1, 2>>, use_values_as_thresholds |-> PrevJson],
      [with_test_chi2 |-> FALSE, with_test_bincont |-> TRUE,
       with_test_numentries |-> FALSE, chi2_threshold |-> "2.0",
       rel_mean_diff_threshold |-> "1.5", rel_entries_diff_threshold |-> "0.01",
       select_critical |-> FALSE, no_plots |-> TRUE,
       threshold |-> <<1, 10>>, use_values_as_thresholds |-> PrevJson],
      [with_test_chi2 |-> FALSE, with_test_bincont |-> FALSE,
       with_test_numentries |-> TRUE, chi2_threshold |-> "1.5",
       rel_mean_diff_threshold |-> "3.0", rel_entries_diff_threshold |-> "0.01",
       select_critical |-> TRUE, no_plots |-> TRUE,
       threshold |-> <<1, 2>>, use_values_as_thresholds |-> <<>>],
      [with_test_chi2 |-> TRUE, with_test_bincont |-> TRUE,
       with_test_numentries |-> TRUE, chi2_threshold |-> "1.5",
       rel_mean_diff_threshold |-> "1.5", rel_entries_diff_threshold |-> "0.05",
       select_critical |-> FALSE, no_plots |-> TRUE,
       threshold |-> <<1, 1>>, use_values_as_thresholds |-> <<>>],
      [with_test_chi2 |-> TRUE, with_test_bincont |-> FALSE,
       with_test_numentries |-> TRUE, chi2_threshold |-> "1.5",
       rel_mean_diff_threshold |-> "1.5", rel_entries_diff_threshold |-> "0.01",
       select_critical |-> TRUE, no_plots |-> FALSE,
       threshold |-> <<1, 10>>, use_values_as_thresholds |-> <<>>] }

\* --input1 and --input2
InputChoices ==
    { [input1 |-> <<D1>>, input2 |-> <<D2>>],
      [input1 |-> <<F1>>, input2 |-> <<F2>>],
      [input1 |-> <<F1, F2>>, input2 |-> <<F3>>],
      [input1 |-> <<D1>>, input2 |-> <<F1>>],
      [input1 |-> <<D1>>, input2 |-> <<DirE>>],
      [input1 |-> <<Nx>>, input2 |-> <<F1>>] }

\* --dir-config (empty: not given), --dir-config-enable, --dir-config-disable
ConfigChoices == { <<>>, Cfg1, Cfg2, Cfg3 }

EnableChoices == { NoneList, ListOf(<<G1>>), ListOf(<<G2, G1>>), ListOf(<<G3>>) }

DisableChoices == { NoneList, ListOf(<<>>), ListOf(<<G2>>) }

\* The record of two records, the fields of the second first
Merge(r1, r2) ==
    [f \in DOMAIN r1 \cup DOMAIN r2 |-> IF f \in DOMAIN r2 THEN r2[f] ELSE r1[f]]

\* What ReleaseValidation.C may do in one invocation: its exit code, and
\* the Summary.json it leaves in its working directory, if any
NoDoc == <<>>

ExternalOutcomes ==
    { [exit |-> 0, doc |-> DocA],
      [exit |-> 0, doc |-> DocB],
      [exit |-> 1, doc |-> NoDoc],
      [exit |-> 0, doc |-> NoDoc] }

NotWritten == [written |-> FALSE, content |-> <<>>]

Written(c) == [written |-> TRUE, content |-> c]

RIdle ==
    /\ args = [output |-> OutDir]
    /\ rPc = "idle"
    /\ rRet = 0
    /\ rThresholdFile = NotWritten
    /\ rFileSizes = NotWritten
    /\ rKeys = <<>>
    /\ rQueue = <<>>
    /\ rHandled = <<>>
    /\ rTasks = <<>>
    /\ rDisk = <<>>
    /\ rReport = NotWritten
    /\ rRaised = ""

RInit ==
    /\ \E prof \in ArgProfiles, inp \in InputChoices, cfg \in ConfigChoices,
          en \in EnableChoices, dis \in DisableChoices :
          args = Merge(Merge(prof, inp),
                       [dir_config |-> cfg, dir_config_enable |-> en,
                        dir_config_disable |-> dis, output |-> OutDir, test |-> 0])
    /\ rPc = "start"
    /\ rRet = 0
    /\ rThresholdFile = NotWritten
    /\ rFileSizes = NotWritten
    /\ rKeys = <<>>
    /\ rQueue = <<>>
    /\ rHandled = <<>>
    /\ rTasks = <<>>
    /\ rDisk = <<>>
    /\ rReport = NotWritten
    /\ rRaised = ""

b2i(b) == IF b THEN 1 ELSE 0

\* lines 601-603: the bit mask of the tests
test_mask(a) ==
    LET t == 1 * b2i(a.with_test_chi2) + 2 * b2i(a.with_test_bincont)
               + 4 * b2i(a.with_test_numentries)
    IN  IF t = 0 THEN 7 ELSE t

\* a plausible slip: directories are compared without a configuration
choose_func_no_config_check(a) ==
    IF is_sim_dir(a.input1[1]) /\ is_sim_dir(a.input2[1])
    THEN "rel_val_sim_dirs"
    ELSE IF \A i \in DOMAIN (a.input1 \o a.input2) : isfile((a.input1 \o a.input2)[i])
         THEN "rel_val_files_only"
         ELSE "no func"

\* lines 609-623: the function that does the comparison, or the reason why
\* rel_val returns 1
choose_func(a) ==
    IF is_sim_dir(a.input1[1]) /\ is_sim_dir(a.input2[1])
    THEN IF a.dir_config = <<>> THEN "no config" ELSE "rel_val_sim_dirs"
    ELSE IF \A i \in DOMAIN (a.input1 \o a.input2) : isfile((a.input1 \o a.input2)[i])
         THEN "rel_val_files_only"
         ELSE "no func"

\* lines 599-626 of rel_val, up to the call of func
Start ==
    /\ rPc = "start"
    /\ LET withTest == [args EXCEPT !.test = test_mask(args)]
           useValues == args.use_values_as_thresholds # <<>>
           a == IF useValues
                THEN [withTest EXCEPT !.use_values_as_thresholds =
                                          join(args.output, UseThresholdsDat)]
                ELSE withTest
           func == choose_func(a)
       IN  /\ args' = a
           /\ rThresholdFile' = IF useValues
                                THEN Written(make_new_threshold_file(PrevSummary))
                                ELSE rThresholdFile
           /\ IF func \in {"no config", "no func"}
              THEN /\ rPc' = "returned"
                   /\ rRet' = 1
                   /\ rQueue' = <<>>
              ELSE IF func = "rel_val_sim_dirs"
              THEN /\ rPc' = "size_audit"
                   /\ rRet' = rRet
                   /\ rQueue' = <<>>
              ELSE /\ rPc' = "dispatch"
                   /\ rRet' = rRet
                   \* rel_val_files_only: one task, the inputs as they are
                   /\ rQueue' = <<[kind |-> "files"]>>
    /\ UNCHANGED <<rFileSizes, rKeys, rHandled, rTasks, rDisk, rReport, rRaised>>
    /\ UNCHANGED <<szVars, mVars, sVars, xVars>>

\* lines 547-550 of rel_val_sim_dirs: the sizes of the files of both
\* directories, written to file_sizes.json
SizeAudit ==
    /\ rPc = "size_audit"
    /\ LET dir1 == args.input1[1]
           dir2 == args.input2[1]
           file_sizes_to_json == file_sizes(<<Tree(dir1), Tree(dir2)>>, audit_threshold(args))
       IN  IF file_sizes_to_json.exception # ""
           THEN /\ rPc' = "raised"
                /\ rRaised' = file_sizes_to_json.exception
                /\ rFileSizes' = rFileSizes
           ELSE /\ rPc' = "select"
                /\ rRaised' = rRaised
                /\ rFileSizes' = Written(file_sizes_to_json.value)
    /\ UNCHANGED <<args, rRet, rThresholdFile, rKeys, rQueue, rHandled, rTasks,
                   rDisk, rReport>>
    /\ UNCHANGED <<szVars, mVars, sVars, xVars>>

\* lines 553-564 of rel_val_sim_dirs: the configuration is read and the
\* groups to run over are chosen
SelectKeys ==
    /\ rPc = "select"
    /\ LET config == ConfigFile(args.dir_config)
           keys == run_over_keys(config, args)
       IN  IF keys.exception # ""
           THEN /\ rPc' = "raised"
                /\ rRaised' = keys.exception
                /\ rKeys' = rKeys
                /\ rQueue' = rQueue
           ELSE /\ rRaised' = rRaised
                /\ rKeys' = keys.value
                \* nothing to do: rel_val_sim_dirs returns 0 and rel_val goes on
                /\ rPc' = IF keys.value = <<>> THEN "aggregate" ELSE "dispatch"
                /\ rQueue' = [i \in DOMAIN sub_groups(config, keys.value) |->
                                 Merge(sub_groups(config, keys.value)[i],
                                       [kind |-> "dirs"])]
    /\ UNCHANGED <<args, rRet, rThresholdFile, rFileSizes, rHandled, rTasks,
                   rDisk, rReport>>
    /\ UNCHANGED <<szVars, mVars, sVars, xVars>>

\* The comparison the loops of lines 566-579 are at, or the one comparison
\* of rel_val_files_only (line 281): its inputs and its output directory
task_inputs(item, a) ==
    IF item.kind = "files"
    THEN [files1 |-> a.input1, files2 |-> a.input2, output_dir |-> a.output]
    ELSE LET dir1 == a.input1[1]
             dir2 == a.input2[1]
             current_files == find_mutual_files(<<Tree(dir1), Tree(dir2)>>,
                                                item.path, NoneList)
         IN  [files1 |-> [i \in DOMAIN current_files |-> join(dir1, current_files[i])],
              files2 |-> [i \in DOMAIN current_files |-> join(dir2, current_files[i])],
              output_dir |-> join(join(a.output, item.rok), item.name)]

\* a plausible slip: nothing found ends the loops, as line 564 does
after_nothing_found_return(rest) == "aggregate"

\* line 573: continue with the next sub-group, if there is one
after_nothing_found(rest) == IF rest = <<>> THEN "aggregate" ELSE "dispatch"

\* lines 570-573: no file of the sub-group is in both directories, the
\* sub-group is passed over
SkipSubGroup ==
    /\ rPc = "dispatch"
    /\ rQueue # <<>>
    /\ Head(rQueue).kind = "dirs"
    /\ task_inputs(Head(rQueue), args).files1 = <<>>
    /\ rHandled' = Append(rHandled, [item |-> Head(rQueue), skipped |-> TRUE])
    /\ rQueue' = Tail(rQueue)
    /\ rPc' = after_nothing_found(Tail(rQueue))
    /\ UNCHANGED <<args, rRet, rRaised, rThresholdFile, rFileSizes, rKeys, rTasks,
                   rDisk, rReport>>
    /\ UNCHANGED <<szVars, mVars, sVars, xVars>>

\* a plausible slip: the subprocess is started and not waited for
after_popen_no_wait(rest) == IF rest = <<>> THEN "aggregate" ELSE "dispatch"

\* lines 271-276: rel_val_files reads the output of the subprocess to its
\* end and waits for it before it returns
after_popen(rest) == "waiting"

\* lines 574-579 and 254-271: ReleaseValidation.C is started in the output
\* directory of the comparison
LaunchTask ==
    /\ rPc = "dispatch"
    /\ rQueue # <<>>
    /\ LET item == Head(rQueue)
           inputs == task_inputs(item, args)
       IN  /\ item.kind = "dirs" => inputs.files1 # <<>>
           /\ rTasks' = Append(rTasks, rel_val_files(inputs.files1, inputs.files2,
                                                     args, inputs.output_dir))
           /\ rHandled' = Append(rHandled, [item |-> item, skipped |-> FALSE])
    /\ rQueue' = Tail(rQueue)
    /\ rPc' = after_popen(Tail(rQueue))
    /\ UNCHANGED <<args, rRet, rRaised, rThresholdFile, rFileSizes, rKeys, rDisk,
                   rReport>>
    /\ UNCHANGED <<szVars, mVars, sVars, xVars>>

\* lines 272-278: the subprocess ends, with whatever exit code and with or
\* without a Summary.json in its working directory
WaitTask ==
    /\ rPc = "waiting"
    /\ \E outcome \in ExternalOutcomes :
          LET n == Len(rTasks)
              p == rTasks[n]
              where == relpath(join(p.output_dir, SummaryJson), args.output)
          IN  /\ rTasks' = [rTasks EXCEPT ![n] =
                               [p EXCEPT !.state = "waited",
                                         !.exit = outcome.exit,
                                         !.summary_written = outcome.doc # NoDoc]]
              /\ rDisk' = IF outcome.doc = NoDoc THEN rDisk
                          ELSE [q \in DOMAIN rDisk \cup {where} |->
                                   IF q = where THEN outcome.doc ELSE rDisk[q]]
              /\ IF after_wait(outcome.exit) = "raise"
                 THEN /\ rPc' = "raised"
                      /\ rRaised' = "CalledProcessError"
                 ELSE /\ rPc' = IF rQueue = <<>> THEN "aggregate" ELSE "dispatch"
                      /\ rRaised' = rRaised
    /\ UNCHANGED <<args, rRet, rThresholdFile, rFileSizes, rKeys, rQueue, rHandled,
                   rReport>>
    /\ UNCHANGED <<szVars, mVars, sVars, xVars>>

\* lines 627-628 of rel_val: SummaryGlobal.json is written from the
\* Summary.json files under the output directory
Aggregate ==
    /\ rPc = "aggregate"
    /\ \E listing \in WalkOrders(DOMAIN rDisk) :
          rDisk' = write_summary_global(rDisk, make_summary(args.output, rDisk, listing))
    /\ rPc' = "report"
    /\ UNCHANGED <<args, rRet, rRaised, rThresholdFile, rFileSizes, rKeys, rQueue,
                   rHandled, rTasks, rReport>>
    /\ UNCHANGED <<szVars, mVars, sVars, xVars>>

\* lines 629-631 of rel_val: the plots, the report, return 0
Report ==
    /\ rPc = "report"
    /\ rReport' = Written(print_summary(rDisk[SummaryGlobalJson]))
    /\ rRet' = 0
    /\ rPc' = "returned"
    /\ UNCHANGED <<args, rRaised, rThresholdFile, rFileSizes, rKeys, rQueue,
                   rHandled, rTasks, rDisk>>
    /\ UNCHANGED <<szVars, mVars, sVars, xVars>>

-----------------------------------------------------------------------------
(* print_summary on its own *)

MaxTests == 2

ArtifactNames == {H1, H2}

\* The lists of at most n outcomes drawn from tests
TestLists(tests, n) == UNION {[1..k -> tests] : k \in 0..n}

\* The summary documents over the artifact names, the outcomes of each
\* artifact drawn from lists: a JSON object, every name at most once
Documents(lists) ==
    {<<>>}
    \cup {<<[name |-> n, tests |-> t]>> : n \in ArtifactNames, t \in lists}
    \cup {<<[name |-> H1, tests |-> t1], [name |-> H2, tests |-> t2]>> :
             t1 \in lists, t2 \in lists}
    \cup {<<[name |-> H2, tests |-> t2], [name |-> H1, tests |-> t1]>> :
             t1 \in lists, t2 \in lists}

\* Outcomes as print_summary reads them: test_name and result
ReportTests ==
    {Test("test_summary", r, TRUE, "0", "0") : r \in {"GOOD", "WARNING", "BAD"}}
    \cup {Test("chi2", "BAD", TRUE, "2.5", "1.5")}

PIdle ==
    /\ pSummary = <<>>
    /\ pResult = NotCalled
    /\ pPc = "idle"

PInit ==
    /\ pSummary \in Documents(TestLists(ReportTests, MaxTests))
    /\ pResult = NotCalled
    /\ pPc = "call"

CallPrintSummary ==
    /\ pPc = "call"
    /\ pResult' = Returned(print_summary(pSummary))
    /\ pPc' = "done"
    /\ UNCHANGED pSummary
    /\ UNCHANGED <<szVars, mVars, sVars, rVars, tVars, cVars>>

-----------------------------------------------------------------------------
(* make_new_threshold_file on its own *)

\* Outcomes as make_new_threshold_file reads them: comparable, test_name
\* and value
ThresholdTests ==
    { Test("chi2", "GOOD", TRUE, "1.2", "1.5"),
      Test("chi2", "NONCRIT_NC", FALSE, "1.2", "1.5"),
      Test("bincont", "BAD", TRUE, "0", "0"),
      Test("bincont", "CRIT_NC", FALSE, "0", "0") }

TIdle ==
    /\ tJson = <<>>
    /\ tLines = NotCalled
    /\ tPc = "idle"

TInit ==
    /\ tJson \in Documents(TestLists(ThresholdTests, MaxTests))
    /\ tLines = NotCalled
    /\ tPc = "call"

CallMakeNewThresholdFile ==
    /\ tPc = "call"
    /\ tLines' = Returned(make_new_threshold_file(tJson))
    /\ tPc' = "done"
    /\ UNCHANGED tJson
    /\ UNCHANGED <<szVars, mVars, sVars, rVars, pVars, cVars>>

-----------------------------------------------------------------------------
(* compare *)

\* The output directories of two earlier runs
RunA == <<"r", "a">>

RunB == <<"r", "b">>

NoReport == <<>>

\* lines 689-704: for one severity, the names printed under FILE 1 and
\* under FILE 2
different_names(summaries, severity) ==
    LET intersection == Range(summaries[1][severity]) \cap Range(summaries[2][severity])
        outside(histo_name) == histo_name \notin intersection
    IN  [i \in DOMAIN summaries |-> SelectSeq(summaries[i][severity], outside)]

\* lines 660-709: what compare returns and prints, or the exception raised.
\* Lines 671, 676 and 684 read args.input; one of the two parts is always
\* entered (lines 666-667).
compare(a, disk) ==
    LET difference == IF ~a.difference /\ ~a.compare_values THEN TRUE ELSE a.difference
    IN  IF "input" \notin DOMAIN a
        THEN Raised(AttributeError)
        ELSE IF ~difference
        THEN Returned([ret |-> 0, reported |-> NoReport])
        ELSE IF \E i \in DOMAIN a.input : ~disk[a.input[i]].present
        THEN Returned([ret |-> 1, reported |-> NoReport])
        ELSE LET summaries == [i \in DOMAIN a.input |-> print_summary(disk[a.input[i]].doc)]
             IN  Returned([ret |-> 0,
                           reported |-> [severity \in Range(REL_VAL_SEVERITY_MAP) |->
                                            different_names(summaries, severity)]])

\* Outcomes of the summaries the two runs hold
VerdictTests ==
    { Test("test_summary", "GOOD", TRUE, "0", "0"),
      Test("test_summary", "WARNING", TRUE, "0", "0") }

\* SummaryGlobal.json of a run output: absent, or a document
SummaryGlobalChoices ==
    {[present |-> FALSE, doc |-> <<>>]}
    \cup {[present |-> TRUE, doc |-> d] : d \in Documents(TestLists(VerdictTests, 1))}

CIdle ==
    /\ cArgs = <<>>
    /\ cDisk = <<>>
    /\ cResult = NotCalled
    /\ cPc = "idle"

\* lines 785-790: the attributes the compare parser gives to args
CInit ==
    /\ \E difference \in BOOLEAN, compare_values \in BOOLEAN :
          cArgs = [input1 |-> <<RunA>>, input2 |-> <<RunB>>,
                   output |-> <<"r", "e", "l", "_", "v", "a", "l", "_",
                                "c", "o", "m", "p", "a", "r", "i", "s", "o", "n">>,
                   difference |-> difference, compare_values |-> compare_values]
    /\ cDisk \in [{RunA, RunB} -> SummaryGlobalChoices]
    /\ cResult = NotCalled
    /\ cPc = "call"

CallCompare ==
    /\ cPc = "call"
    /\ cResult' = compare(cArgs, cDisk)
    /\ cPc' = "done"
    /\ UNCHANGED <<cArgs, cDisk>>
    /\ UNCHANGED <<szVars, mVars, sVars, rVars, pVars, tVars>>

\* No call of the functions that read a summary is under way
XIdle == PIdle /\ TIdle /\ CIdle

-----------------------------------------------------------------------------
(* Specifications *)

InitSizes == SzInit /\ MIdle /\ SIdle /\ RIdle /\ XIdle

NextSizes == CallExceedingDifferenceThresh

SpecSizes == InitSizes /\ [][NextSizes]_vars

InitMatch == MInit /\ SzIdle /\ SIdle /\ RIdle /\ XIdle

NextMatch == CallFindMutualFiles

SpecMatch == InitMatch /\ [][NextMatch]_vars

InitSummary == SInit /\ SzIdle /\ MIdle /\ RIdle /\ XIdle

NextSummary == MakeSummaryFirst \/ WriteSummaryGlobal \/ MakeSummarySecond

SpecSummary == InitSummary /\ [][NextSummary]_vars

InitRun == RInit /\ SzIdle /\ MIdle /\ SIdle /\ XIdle

NextRun ==
    \/ Start
    \/ SizeAudit
    \/ SelectKeys
    \/ SkipSubGroup
    \/ LaunchTask
    \/ WaitTask
    \/ Aggregate
    \/ Report

SpecRun == InitRun /\ [][NextRun]_vars

InitReport == PInit /\ SzIdle /\ MIdle /\ SIdle /\ RIdle /\ TIdle /\ CIdle

NextReport == CallPrintSummary

SpecReport == InitReport /\ [][NextReport]_vars

InitThresholds == TInit /\ SzIdle /\ MIdle /\ SIdle /\ RIdle /\ PIdle /\ CIdle

NextThresholds == CallMakeNewThresholdFile

SpecThresholds == InitThresholds /\ [][NextThresholds]_vars

InitCompare == CInit /\ SzIdle /\ MIdle /\ SIdle /\ RIdle /\ PIdle /\ TIdle

NextCompare == CallCompare

SpecCompare == InitCompare /\ [][NextCompare]_vars

-----------------------------------------------------------------------------
(* C5, C6 *)

IsSorted(s) ==
    \A i \in DOMAIN s : \A j \in DOMAIN s : i < j => ~StrLess(s[j], s[i])

\* The paths, relative to the root of the tree, that the pattern matches
\* in one tree
MatchedIn(d, glob_pattern) ==
    {e \in Entries(d.files) : GlobMatches(e, glob_pattern)}

\* The paths matched in every one of the trees
MutualPaths(dirs, glob_pattern) ==
    IF dirs = <<>> THEN {}
    ELSE {e \in MatchedIn(dirs[1], glob_pattern) :
            \A k \in DOMAIN dirs : e \in MatchedIn(dirs[k], glob_pattern)}

GrepGiven == Truthy(mGrep)

\* C5: without grep, the paths find_mutual_files returns are exactly the
\* tree-relative paths the pattern matches in every tree, in lexicographic
\* order, and an empty intersection gives the empty list.
C5_IntersectionSorted ==
    (mPc = "done" /\ ~GrepGiven) =>
        /\ Range(mResult) = MutualPaths(mDirs, mPattern)
        /\ IsSorted(mResult)
        /\ MutualPaths(mDirs, mPattern) = {} => mResult = <<>>

C5_Witness ==
    /\ mPc = "done"
    /\ mGrep = NoneList
    /\ Len(mDirs) = 2
    /\ mDirs[1].root # mDirs[2].root
    /\ Len(mResult) = 2
    /\ MatchedIn(mDirs[1], mPattern) # MatchedIn(mDirs[2], mPattern)

\* C6: with grep patterns, find_mutual_files returns exactly the mutual
\* paths that contain at least one grep substring, each of them once.
C6_GrepEachPathOnce ==
    (mPc = "done" /\ GrepGiven) =>
        /\ Range(mResult) =
              {e \in MutualPaths(mDirs, mPattern) :
                  \E k \in DOMAIN mGrep.list : Contains(e, mGrep.list[k])}
        /\ \A i \in DOMAIN mResult : \A j \in DOMAIN mResult :
              i # j => mResult[i] # mResult[j]

-----------------------------------------------------------------------------
(* C9, C10 *)

\* The Summary.json files in the order make_summary reads them, relative
\* to the output directory
ReadOrder == SelectSeq(sListing, LAMBDA p : p \in DOMAIN sDisk /\ GlobMatches(p, SummaryJson))

\* The positions in ReadOrder of the files with an outcome list for a name
FilesWith(name) ==
    {k \in DOMAIN ReadOrder :
        \E i \in DOMAIN sDisk[ReadOrder[k]] : sDisk[ReadOrder[k]][i].name = name}

Last(K) == CHOOSE k \in K : \A j \in K : j <= k

\* The outcome list a file holds for a name
TestsIn(file, name) ==
    sDisk[file][CHOOSE i \in DOMAIN sDisk[file] : sDisk[file][i].name = name].tests

\* The group of a file: its directory, relative to the output directory
GroupOf(file) == IF Len(split(file)) = 1 THEN <<".">> ELSE dirname_of(file)

\* The outcome lists of the merged document come from this group alone,
\* outcome by outcome, and carry its provenance
HoldsOnly(merged, file, name) ==
    LET raw == TestsIn(file, name)
    IN  /\ Len(merged) = Len(raw)
        /\ \A k \in DOMAIN merged :
              /\ merged[k].test_name = raw[k].test_name
              /\ merged[k].result = raw[k].result
              /\ merged[k].comparable = raw[k].comparable
              /\ merged[k].value = raw[k].value
              /\ merged[k].type_specific = GroupOf(file)
              /\ merged[k].type_global = split(GroupOf(file))[1]

\* C9: when one artifact name is in the Summary.json of two groups, the
\* merged document holds for it the outcome list of the group processed
\* later only, with that group's provenance.
C9_LastWriterWins ==
    sPc \in {"made", "written", "done"} =>
        \A i \in DOMAIN sSummary1 :
            LET name == sSummary1[i].name
            IN  Cardinality(FilesWith(name)) >= 2 =>
                    HoldsOnly(sSummary1[i].tests, ReadOrder[Last(FilesWith(name))], name)

C9_Witness ==
    /\ sPc = "made"
    /\ \E i \in DOMAIN sSummary1 :
          LET K == FilesWith(sSummary1[i].name)
          IN  /\ Cardinality(K) >= 2
              /\ \E k \in K :
                    TestsIn(ReadOrder[k], sSummary1[i].name)
                        # TestsIn(ReadOrder[Last(K)], sSummary1[i].name)

-----------------------------------------------------------------------------
(* C7 *)

\* C7: for every list of sizes and every threshold, the pair (i1, i2) with
\* i1 < i2 is flagged if and only if |size[i1] - size[i2]| / size[i2] is
\* strictly greater than the threshold, the denominator being the second
\* element of the pair; (100, 200) at 0.5 is not flagged, (100, 201) is.
\* The quotient is defined when size[i2] is not zero; with a zero size in a
\* second position the function raises ZeroDivisionError and flags nothing.
C7_StrictSecondDenominator ==
    szPc = "done" =>
        LET n == Len(szSizes)
            zero == \E i2 \in 2..n : szSizes[i2] = 0
            flags == szResult.value
        IN  /\ zero <=> szResult.exception = ZeroDivisionError
            /\ ~zero =>
                /\ szResult.exception = ""
                /\ \A k \in DOMAIN flags :
                      /\ flags[k][1] \in 0..(n - 1)
                      /\ flags[k][2] \in 0..(n - 1)
                      /\ flags[k][1] < flags[k][2]
                /\ \A i1 \in 0..(n - 1) : \A i2 \in 0..(n - 1) :
                      i1 < i2 =>
                        (<<i1, i2>> \in Range(flags)
                           <=> Abs(szSizes[i1 + 1] - szSizes[i2 + 1]) * szThreshold[2]
                                  > szThreshold[1] * szSizes[i2 + 1])
                /\ (szSizes = <<100, 200>> /\ szThreshold = <<1, 2>>)
                      => flags = <<>>
                /\ (szSizes = <<100, 201>> /\ szThreshold = <<1, 2>>)
                      => flags = << <<0, 1>> >>
                /\ (szSizes = <<200, 100>> /\ szThreshold = <<1, 2>>)
                      => flags = << <<0, 1>> >>

C7_Witness ==
    /\ szPc = "done"
    /\ szSizes = <<100, 201>>
    /\ szThreshold = <<1, 2>>
    /\ szResult = Returned(<< <<0, 1>> >>)

-----------------------------------------------------------------------------
(* Claims about the rel-val run *)

\* Both inputs are simulation directories
DirectoryMode == is_sim_dir(args.input1[1]) /\ is_sim_dir(args.input2[1])

TreesOfRun == <<Tree(args.input1[1]), Tree(args.input2[1])>>

\* The external routine failed for the task: non-zero exit, or no Summary.json
FailedTask(p) == p.state = "waited" /\ (p.exit # 0 \/ ~p.summary_written)

SomeTaskFailed == \E i \in DOMAIN rTasks : FailedTask(rTasks[i])

\* The comparisons the run is configured for
ConfiguredItems ==
    IF DirectoryMode
    THEN LET groups == sub_groups(ConfigFile(args.dir_config), rKeys)
         IN  [i \in DOMAIN groups |-> Merge(groups[i], [kind |-> "dirs"])]
    ELSE <<[kind |-> "files"]>>

NotSkipped(h) == ~h.skipped

\* C1: once the external routine has failed for a task (non-zero exit, or
\* no Summary.json), the run is still not ended by an exception; when
\* rel_val returns, it returns 0, every configured comparison has been come
\* to, every one that was not passed over for lack of files has had its
\* subprocess started and waited for, SummaryGlobal.json is written and the
\* report is made.
C1_FailureNeverStopsRun ==
    SomeTaskFailed =>
        /\ rPc # "raised"
        /\ rRaised = ""
        /\ rPc = "returned" =>
              /\ rRet = 0
              /\ rQueue = <<>>
              /\ [i \in DOMAIN rHandled |-> rHandled[i].item] = ConfiguredItems
              /\ Len(rTasks) = Len(SelectSeq(rHandled, NotSkipped))
              /\ \A i \in DOMAIN rTasks : rTasks[i].state = "waited"
              /\ SummaryGlobalJson \in DOMAIN rDisk
              /\ rReport.written

C1_Witness ==
    /\ rPc = "returned"
    /\ rRet = 0
    /\ Len(rTasks) >= 2
    /\ rTasks[1].exit # 0
    /\ ~rTasks[1].summary_written
    /\ rTasks[Len(rTasks)].summary_written
    /\ rReport.written

\* C2: with two simulation directories and no directory configuration,
\* rel_val returns 1, and neither file_sizes.json nor SummaryGlobal.json is
\* written and no comparison is started.
C2_NoConfigReturnsOne ==
    (DirectoryMode /\ args.dir_config = <<>> /\ rPc # "start") =>
        /\ rPc = "returned"
        /\ rRet = 1
        /\ ~rFileSizes.written
        /\ rHandled = <<>>
        /\ rTasks = <<>>
        /\ SummaryGlobalJson \notin DOMAIN rDisk
        /\ ~rReport.written

C2_Witness ==
    /\ DirectoryMode
    /\ args.dir_config = <<>>
    /\ rPc = "returned"
    /\ rRet = 1

\* The keys of the configuration that are enabled and not disabled, in the
\* order of the configuration
ExpectedKeys ==
    LET keys == config_keys(ConfigFile(args.dir_config))
        wanted(rok) ==
            /\ Truthy(args.dir_config_enable) =>
                  rok \in Range(args.dir_config_enable.list)
            /\ rok \notin Range(args.dir_config_disable.list)
    IN  SelectSeq(keys, wanted)

RECURSIVE Dedup(_)
Dedup(s) ==
    IF s = <<>> THEN <<>>
    ELSE LET rest == Dedup(SubSeq(s, 1, Len(s) - 1))
         IN  IF s[Len(s)] \in Range(rest) THEN rest ELSE Append(rest, s[Len(s)])

\* C3: in directory mode, once the groups have been chosen, they are the
\* keys of the configuration that are in the enable-list (all, when there is
\* none) and not in the disable-list, in the order of the configuration;
\* and the run ends having come to the sub-groups of exactly these groups.
C3_EnableDisable ==
    (DirectoryMode /\ rFileSizes.written /\ rPc # "select") =>
        /\ rKeys = ExpectedKeys
        /\ rPc # "raised"
        /\ rPc = "returned" =>
              Dedup([i \in DOMAIN rHandled |-> rHandled[i].item.rok]) = ExpectedKeys

\* C4: the arguments of every invocation of the external routine hold the
\* disable-plots flag, so that they are other arguments than the ones the
\* same run without (or with) --no-plots hands over.
C4_CommandCarriesNoPlots ==
    \A i \in DOMAIN rTasks :
        LET p == rTasks[i]
            flipped == [args EXCEPT !.no_plots = ~args.no_plots]
        IN  /\ "no_plots" \in DOMAIN p.cmd
            /\ p.cmd # macro_arguments(p.files1, p.files2, flipped)

\* C8: the size audit of a two-directory run is done with the threshold of
\* --threshold, and file_sizes.json records that threshold.
C8_AuditUsesThreshold ==
    rFileSizes.written =>
        /\ rFileSizes.content.threshold = args.threshold
        /\ rFileSizes.content = file_sizes(TreesOfRun, args.threshold).value

-----------------------------------------------------------------------------
(* Claims about print_summary *)

HasVerdict(summary, name, sev) ==
    \E i \in DOMAIN summary :
        /\ summary[i].name = name
        /\ \E k \in DOMAIN summary[i].tests :
              /\ summary[i].tests[k].test_name = "test_summary"
              /\ summary[i].tests[k].result = sev

\* C11: print_summary returns one bucket per severity, and an artifact name
\* is in the bucket of severity S exactly when the artifact has an outcome
\* of test_summary with result S; so the outcomes of other tests count for
\* nothing and an artifact without a test_summary outcome is in no bucket.
C11_BucketsByTestSummary ==
    pPc = "done" =>
        /\ pResult.exception = ""
        /\ DOMAIN pResult.value = Range(REL_VAL_SEVERITY_MAP)
        /\ \A sev \in Range(REL_VAL_SEVERITY_MAP) :
              /\ Range(pResult.value[sev]) \subseteq ArtifactNames
              /\ \A name \in ArtifactNames :
                    name \in Range(pResult.value[sev]) <=> HasVerdict(pSummary, name, sev)

C11_Witness ==
    /\ pPc = "done"
    /\ HasVerdict(pSummary, H1, "BAD")
    /\ \E i \in DOMAIN pSummary :
          /\ pSummary[i].name = H2
          /\ pSummary[i].tests # <<>>
          /\ \A k \in DOMAIN pSummary[i].tests :
                pSummary[i].tests[k].test_name # "test_summary"
    /\ pResult.value["BAD"] = <<H1>>
    /\ \A sev \in Range(REL_VAL_SEVERITY_MAP) : H2 \notin Range(pResult.value[sev])

-----------------------------------------------------------------------------
(* Claims about make_new_threshold_file *)

RECURSIVE Outcomes(_)
\* The outcomes of a document in document order, each with its artifact
Outcomes(doc) ==
    IF doc = <<>> THEN <<>>
    ELSE [k \in DOMAIN Head(doc).tests |->
             [name |-> Head(doc).name, test |-> Head(doc).tests[k]]]
         \o Outcomes(Tail(doc))

IsComparable(o) == o.test.comparable

\* C13: the lines written are, in document order, one line
\* "artifact_name,test_name,value" for each outcome of the document that is
\* comparable, and none for an outcome that is not.
C13_OneLinePerComparable ==
    tPc = "done" =>
        LET comparable == SelectSeq(Outcomes(tJson), IsComparable)
        IN  /\ tLines.exception = ""
            /\ tLines.value = [i \in DOMAIN comparable |->
                                  [name |-> comparable[i].name,
                                   test_name |-> comparable[i].test.test_name,
                                   value |-> comparable[i].test.value]]

C13_Witness ==
    /\ tPc = "done"
    /\ tJson = <<[name |-> H1,
                  tests |-> << Test("chi2", "GOOD", TRUE, "1.2", "1.5"),
                               Test("bincont", "CRIT_NC", FALSE, "0", "0") >>]>>
    /\ tLines.value = <<[name |-> H1, test_name |-> "chi2", value |-> "1.2"]>>

-----------------------------------------------------------------------------
(* Claims about compare *)

\* The artifacts of a run that have the severity
Bucket(run, sev) == {name \in ArtifactNames : HasVerdict(cDisk[run].doc, name, sev)}

\* C12: when both run outputs hold a SummaryGlobal.json, compare returns 0
\* and reports, for every severity and each of the two runs, exactly the
\* artifacts in that run's bucket of the severity that are not in the other
\* run's bucket of the same severity.
C12_ReportsDifferences ==
    (cPc = "done" /\ cDisk[RunA].present /\ cDisk[RunB].present) =>
        /\ cResult.exception = ""
        /\ cResult.value.ret = 0
        /\ \A sev \in Range(REL_VAL_SEVERITY_MAP) :
              /\ Range(cResult.value.reported[sev][1]) = Bucket(RunA, sev) \ Bucket(RunB, sev)
              /\ Range(cResult.value.reported[sev][2]) = Bucket(RunB, sev) \ Bucket(RunA, sev)

-----------------------------------------------------------------------------
(* Claims about the sub-groups of a directory run *)

\* The files under both directories of the run that the pattern matches
CommonMatches(pattern) ==
    {f \in Entries(DirFiles(args.input1[1])) \cap Entries(DirFiles(args.input2[1])) :
        GlobMatches(f, pattern)}

OutputDirOf(item) == join(join(args.output, item.rok), item.name)

SomeSubGroupSkipped == \E i \in DOMAIN rHandled : rHandled[i].skipped

\* C14: in directory mode, a sub-group is passed over exactly when its
\* pattern matches no file common to both trees; no subprocess is started
\* in, and so no directory made for, its output directory; the run is not
\* ended by it, and when rel_val returns, every sub-group of every chosen
\* group has been come to and every one with common files has its task.
C14_EmptySubGroupSkipped ==
    /\ \A i \in DOMAIN rHandled :
          LET h == rHandled[i]
          IN  h.item.kind = "dirs" =>
                  /\ h.skipped <=> CommonMatches(h.item.path) = {}
                  /\ h.skipped =>
                        \A k \in DOMAIN rTasks : rTasks[k].output_dir # OutputDirOf(h.item)
    /\ SomeSubGroupSkipped =>
          /\ rPc # "raised"
          /\ rPc = "returned" =>
                /\ rRet = 0
                /\ [i \in DOMAIN rHandled |-> rHandled[i].item] = ConfiguredItems
                /\ \A i \in DOMAIN rHandled :
                      ~rHandled[i].skipped =>
                          \E k \in DOMAIN rTasks :
                              rTasks[k].output_dir = OutputDirOf(rHandled[i].item)

C14_Witness ==
    /\ rPc = "returned"
    /\ \E i \in DOMAIN rHandled : \E j \in DOMAIN rHandled :
          /\ i < j
          /\ rHandled[i].skipped
          /\ ~rHandled[j].skipped
          /\ rHandled[j].item.rok # rHandled[i].item.rok
          /\ \E k \in DOMAIN rTasks :
                /\ rTasks[k].output_dir = OutputDirOf(rHandled[j].item)
                /\ rTasks[k].state = "waited"

-----------------------------------------------------------------------------
(* Claims about the order of a run *)

\* The phases of a run in their order: the size audit, the dispatch (the
\* choice of the groups and the tasks, one after the other), the
\* aggregation, the report, the end
PhaseRank(pc) ==
    CASE pc \in {"idle", "start"} -> 0
      [] pc = "size_audit" -> 1
      [] pc \in {"select", "dispatch", "waiting"} -> 2
      [] pc = "aggregate" -> 3
      [] pc = "report" -> 4
      [] pc \in {"returned", "raised"} -> 5

Running == {i \in DOMAIN rTasks : rTasks[i].state = "running"}

PhasesInOrder ==
    \* at most one subprocess at a time, and the run waits for it
    /\ Cardinality(Running) <= 1
    /\ Running # {} => (rPc = "waiting" /\ Running = {Len(rTasks)})
    \* the size audit: in directory mode only, and before the first task
    /\ (rPc = "size_audit" \/ rFileSizes.written) => DirectoryMode
    /\ (DirectoryMode /\ rHandled # <<>>) => rFileSizes.written
    \* SummaryGlobal.json: after the last task has been waited for
    /\ SummaryGlobalJson \in DOMAIN rDisk =>
          /\ rPc \in {"report", "returned"}
          /\ rQueue = <<>>
          /\ Running = {}
    \* the report: after SummaryGlobal.json
    /\ rReport.written => (rPc = "returned" /\ SummaryGlobalJson \in DOMAIN rDisk)
    /\ (rPc = "returned" /\ rRet = 0) => rReport.written

NeverBack ==
    /\ PhaseRank(rPc') >= PhaseRank(rPc)
    \* SummaryGlobal.json is written by the step from aggregation to the
    \* report and by no other
    /\ (SummaryGlobalJson \in DOMAIN rDisk' /\ SummaryGlobalJson \notin DOMAIN rDisk)
          => (rPc = "aggregate" /\ rPc' = "report")
    /\ SummaryGlobalJson \in DOMAIN rDisk => rDisk' = rDisk
    /\ rFileSizes.written => rFileSizes' = rFileSizes
    /\ Len(rTasks') >= Len(rTasks)

\* C15: a run goes through the size audit (directory mode only), the
\* dispatch of all tasks, the aggregation and the report in this order and
\* never goes back; SummaryGlobal.json is written once, after every started
\* subprocess has been waited for; at most one subprocess runs at a time.
C15_PhasesInOrder == []PhasesInOrder /\ [][NeverBack]_vars

C15_Witness ==
    /\ rPc = "returned"
    /\ rRet = 0
    /\ DirectoryMode
    /\ rFileSizes.written
    /\ Len(rTasks) >= 2
    /\ \A i \in DOMAIN rTasks : rTasks[i].state = "waited"
    /\ SummaryGlobalJson \in DOMAIN rDisk
    /\ rReport.written

-----------------------------------------------------------------------------
(* Claims about the tasks *)

\* C16: no two subprocesses of a run are started in the same output
\* directory.
C16_DistinctOutputDirs ==
    \A i \in DOMAIN rTasks : \A j \in DOMAIN rTasks :
        i # j => rTasks[i].output_dir # rTasks[j].output_dir

\* The path under the directory, for a path that starts with "<dir>/"
Under(path, dir) == SubSeq(path, Len(dir) + 2, Len(path))

\* C17: the two file lists of every task are of the same length, and in
\* directory mode the files at the same index are the same path under the
\* first and under the second directory.
C17_ListsIndexAligned ==
    \A i \in DOMAIN rTasks :
        LET p == rTasks[i]
        IN  /\ Len(p.files1) = Len(p.files2)
            /\ DirectoryMode =>
                  \A k \in DOMAIN p.files1 :
                      /\ IsPrefix(args.input1[1] \o <<"/">>, p.files1[k])
                      /\ IsPrefix(args.input2[1] \o <<"/">>, p.files2[k])
                      /\ Under(p.files1[k], args.input1[1]) = Under(p.files2[k], args.input2[1])

-----------------------------------------------------------------------------
(* Claims about the provenance in the merged document *)

Slash == <<"/">>

\* The outcomes the merged document holds for a name carry the provenance
\* of the file they were read from
AnnotatedFrom(merged, file, name) ==
    LET dir == GroupOf(file)
        parts == split(dir)
    IN  \A k \in DOMAIN merged :
            /\ merged[k].name = name
            /\ merged[k].type_specific = dir
            /\ merged[k].type_global = parts[1]
            /\ merged[k].rel_path_plot =
                  dir \o Slash \o OverlayPlots \o Slash \o name \o DotPng

ProvenanceAnnotated ==
    sPc \in {"made", "written", "done"} =>
        \A i \in DOMAIN sSummary1 :
            LET name == sSummary1[i].name
            IN  /\ FilesWith(name) # {}
                /\ AnnotatedFrom(sSummary1[i].tests, ReadOrder[Last(FilesWith(name))], name)

\* The outcomes of the Summary.json files hold what the external routine
\* wrote and nothing else
RawOnDisk ==
    \A p \in DOMAIN sDisk \ {SummaryGlobalJson} :
        \A i \in DOMAIN sDisk[p] : \A k \in DOMAIN sDisk[p][i].tests :
            DOMAIN sDisk[p][i].tests[k] =
                {"test_name", "result", "comparable", "value", "threshold"}

SummaryFilesKept ==
    /\ DOMAIN sDisk' \subseteq DOMAIN sDisk \cup {SummaryGlobalJson}
    /\ \A p \in DOMAIN sDisk \ {SummaryGlobalJson} :
          p \in DOMAIN sDisk' /\ sDisk'[p] = sDisk[p]

\* C18: every outcome of the merged document carries the name of its
\* artifact, type_specific = the directory of the Summary.json it was read
\* from relative to the output directory, type_global = the first component
\* of that directory and rel_path_plot =
\* type_specific/overlayPlots/<name>.png; and no step changes a Summary.json
\* on disk.
C18_ProvenanceAnnotated ==
    [](ProvenanceAnnotated /\ RawOnDisk) /\ [][SummaryFilesKept]_vars

C18_Witness ==
    /\ sPc = "done"
    /\ \E i \in DOMAIN sSummary1 : \E k \in DOMAIN sSummary1[i].tests :
          /\ sSummary1[i].tests[k].type_specific = join(G1, N1)
          /\ sSummary1[i].tests[k].type_global = G1
          /\ sSummary1[i].tests[k].rel_path_plot =
                join(join(join(G1, N1), OverlayPlots), sSummary1[i].name \o DotPng)
    /\ \E i \in DOMAIN sSummary1 : \E k \in DOMAIN sSummary1[i].tests :
          sSummary1[i].tests[k].type_specific = <<".">>

====
